---- MODULE Spec2Model ----
(***************************************************************************)
(* A model of pipe_updater (src/src/main.rs): the update pipeline run by   *)
(* a background thread (update_task_main, UpdateTask::run), the process-   *)
(* wide registry UPDATER_STATE with its guard, the /start and /progress    *)
(* handlers served by the single HTTP worker, and the debug update_loop.   *)
(*                                                                         *)
(* Task objects live in slots 1..MaxTasks.  A slot is "absent" until       *)
(* UpdateTask::new builds a task in it and becomes "absent" again once the *)
(* task was dropped and its thread has ended.  External collaborators      *)
(* (systemctl, the filesystem, /bin/bash chown, PipeDownloader) are the    *)
(* environment: every call draws its outcome nondeterministically.         *)
(***************************************************************************)
EXTENDS Naturals, Sequences, FiniteSets

\* ---------------------------------------------------------------- bounds
MaxTasks == 2        \* task objects that may exist at the same time
MaxServices == 2     \* longest SERVICES_TO_STOP list
MaxPaths == 2        \* longest DELETE_DIRS list
MaxTargets == 1      \* longest CHANGE_OWNER_PATHS list

Tasks == 1..MaxTasks

\* ------------------------------------------------------------- constants
StageOrder ==
    << "init", "stopping_services", "removing_old_files", "downloading",
       "changing_ownership", "starting_service", "finished" >>

StageRank(s) == CHOOSE k \in 1..Len(StageOrder) : StageOrder[k] = s

NoError == "None"

ErrStop == "Failed to stop process"
ErrRemoveDir == "Error removing directory"
ErrRemoveFile == "Error removing file"
ErrStartDownload == "Error started downloading"
ErrDownload == "Download failed with error"
ErrChown == "Error changing owner"
ErrRestart == "Error starting service"

RespAlreadyRunning == "Already running"
RespStarted == "Update started!"
RespRunError == "Error starting update task"
RespNone == "none"

VARIABLES
    guard,          \* holder of the UPDATER_STATE mutex: "free", "worker", "loop"
    updater,        \* UPDATER_STATE.updater: 0 (None) or the slot of the current task
    cfg,            \* per task: the configuration it was built from
    is_running,     \* per task: UpdateTask.is_running
    stage,          \* per task: UpdateTask.stage
    error_message,  \* per task: UpdateTask.error_message (NoError = None)
    dl,             \* per task: state of the task's PipeDownloader
    dlLock,         \* per task: holder of the downloader mutex: "free", "pipeline"
    pc,             \* per task: position of the task's background thread
    idx,            \* per task: index of the loop the thread is in
    ret,            \* per task: value returned by update_task_main ("none" before)
    log,            \* per task: calls the thread made to its collaborators
    wpc,            \* position of the HTTP worker
    wtask,          \* the worker's local `updater`: slot of the task being started
    snap,           \* the progress value the worker is assembling
    response,       \* the response the worker is returning
    lpc             \* position of the debug update_loop

vars == << guard, updater, cfg, is_running, stage, error_message, dl, dlLock,
           pc, idx, ret, log, wpc, wtask, snap, response, lpc >>

taskVars == << cfg, is_running, stage, error_message, dl, dlLock, pc, idx, ret, log >>
workerVars == << wpc, wtask, snap, response >>

\* --------------------------------------------------------- configuration
\* start_update reads the lists from the environment on every request: a list
\* is empty (its variable is unset) or has the longest length modelled.
\* TARGET_USER and TARGET_GROUP always have a value (default "erigon").
Configs ==
    [ services : { 0, MaxServices }, paths : { 0, MaxPaths }, targets : { 0, MaxTargets },
      owner : { TRUE } ]

NoCfg == [ services |-> 0, paths |-> 0, targets |-> 0, owner |-> FALSE ]

NoSnap == [ stage |-> "none", errorMessage |-> NoError, downloadProgress |-> "none" ]

NoTaskSnap == [ stage |-> "no_task", errorMessage |-> NoError, downloadProgress |-> "null" ]

NoResponse == [ kind |-> "none", text |-> RespNone, body |-> NoSnap ]

\* The thread of task t is running update_task_main or the writes after it.
ThreadActive(t) == pc[t] \notin { "absent", "new", "ended" }

ActiveThreads == { t \in Tasks : ThreadActive(t) }

Append1(t, op, i, res) == Append(log[t], [ op |-> op, i |-> i, res |-> res ])

\* ------------------------------------------------------------------ Init
Init ==
    /\ guard = "free"
    /\ updater = 0
    /\ cfg = [ t \in Tasks |-> NoCfg ]
    /\ is_running = [ t \in Tasks |-> FALSE ]
    /\ stage = [ t \in Tasks |-> "init" ]
    /\ error_message = [ t \in Tasks |-> NoError ]
    /\ dl = [ t \in Tasks |-> "idle" ]
    /\ dlLock = [ t \in Tasks |-> "free" ]
    /\ pc = [ t \in Tasks |-> "absent" ]
    /\ idx = [ t \in Tasks |-> 0 ]
    /\ ret = [ t \in Tasks |-> "none" ]
    /\ log = [ t \in Tasks |-> << >> ]
    /\ wpc = "idle"
    /\ wtask = 0
    /\ snap = NoSnap
    /\ response = NoResponse
    /\ lpc = "check"

\* ------------------------------------------------------- UpdateTask::new
\* A slot that holds no task: never used, or its task was dropped and its
\* thread has ended.
SlotFree(t) == pc[t] = "absent" \/ (pc[t] = "ended" /\ t # updater /\ t # wtask)

NewSlot == CHOOSE t \in Tasks : SlotFree(t) /\ \A u \in Tasks : SlotFree(u) => t <= u

\* Every field of slot t is set, the other slots are untouched.
SetSlot(t, c, run, st, err, d, lk, p, i, r, l) ==
    /\ cfg' = [ cfg EXCEPT ![t] = c ]
    /\ is_running' = [ is_running EXCEPT ![t] = run ]
    /\ stage' = [ stage EXCEPT ![t] = st ]
    /\ error_message' = [ error_message EXCEPT ![t] = err ]
    /\ dl' = [ dl EXCEPT ![t] = d ]
    /\ dlLock' = [ dlLock EXCEPT ![t] = lk ]
    /\ pc' = [ pc EXCEPT ![t] = p ]
    /\ idx' = [ idx EXCEPT ![t] = i ]
    /\ ret' = [ ret EXCEPT ![t] = r ]
    /\ log' = [ log EXCEPT ![t] = l ]

\* UpdateTask::new: is_running false, no error, stage "init", a fresh downloader.
UpdateTaskNew(t, c) ==
    SetSlot(t, c, FALSE, "init", NoError, "idle", "free", "new", 0, "none", << >>)

\* The task in slot t is dropped (no thread holds its fields any more).
DropTask(t) ==
    SetSlot(t, NoCfg, FALSE, "init", NoError, "idle", "free", "absent", 0, "none", << >>)

\* ---------------------------------------------------------- start_update
\* Mutant: start_update does not look at the running flag.
AlreadyRunningNever == FALSE

\* updater_state.updater.as_ref().map(|upd| upd.is_running()).unwrap_or(false)
AlreadyRunning == updater # 0 /\ is_running[updater]

\* GET /start while the current task is running: "Already running".
StartRejected ==
    /\ wpc = "idle"
    /\ guard = "free"
    /\ AlreadyRunning
    /\ wpc' = "respond"
    /\ response' = [ kind |-> "start", text |-> RespAlreadyRunning, body |-> NoSnap ]
    /\ UNCHANGED << guard, updater, taskVars, wtask, snap, lpc >>

\* GET /start otherwise: the guard is taken, the configuration is read from
\* the environment and UpdateTask::new builds the task.
StartConstruct ==
    /\ wpc = "idle"
    /\ guard = "free"
    /\ ~AlreadyRunning
    /\ \E t \in Tasks : SlotFree(t)
    /\ \E c \in Configs : UpdateTaskNew(NewSlot, c)
    /\ guard' = "worker"
    /\ wtask' = NewSlot
    /\ wpc' = "start_run"
    /\ UNCHANGED << updater, snap, response, lpc >>

\* Mutant: run() always reports "Task is already running".
RunRefusedAlways(t) == TRUE

\* UpdateTask::run on the new task: Err if it is running already, else
\* is_running = true and the thread is spawned.
RunRefused(t) == is_running[t]

\* Mutant: run() always reports "Task is already running".
\* Mutant: run() spawns the thread without setting is_running.
RunSpawnFlagUnset(t) ==
    /\ UNCHANGED is_running
    /\ pc' = [ u \in Tasks |->
                 IF u = t THEN "spawned"
                 ELSE IF u = updater /\ pc[u] = "ended" THEN "absent" ELSE pc[u] ]

\* is_running = true and thread::spawn; a dropped task whose thread has ended
\* leaves its slot.
RunSpawn(t) ==
    /\ is_running' = [ is_running EXCEPT ![t] = TRUE ]
    /\ pc' = [ u \in Tasks |->
                 IF u = t THEN "spawned"
                 ELSE IF u = updater /\ pc[u] = "ended" THEN "absent" ELSE pc[u] ]

\* Mutant: the started task is not stored in UPDATER_STATE.
StoreUpdaterForgotten(t) ==
    UNCHANGED << updater, cfg, stage, error_message, dl, ret, log, dlLock, idx >>

\* updater_state.updater = Some(updater): the previous task is dropped.  Its
\* thread has ended unless single-flight is broken, and then it keeps the
\* fields alive.
StoreUpdater(t) ==
    /\ updater' = t
    /\ cfg' = [ u \in Tasks |-> IF u = updater /\ pc[u] = "ended" THEN NoCfg ELSE cfg[u] ]
    /\ stage' = [ u \in Tasks |-> IF u = updater /\ pc[u] = "ended" THEN "init" ELSE stage[u] ]
    /\ error_message' =
          [ u \in Tasks |-> IF u = updater /\ pc[u] = "ended" THEN NoError ELSE error_message[u] ]
    /\ dl' = [ u \in Tasks |-> IF u = updater /\ pc[u] = "ended" THEN "idle" ELSE dl[u] ]
    /\ ret' = [ u \in Tasks |-> IF u = updater /\ pc[u] = "ended" THEN "none" ELSE ret[u] ]
    /\ log' = [ u \in Tasks |-> IF u = updater /\ pc[u] = "ended" THEN << >> ELSE log[u] ]
    /\ UNCHANGED << dlLock, idx >>

\* The rest of start_update, with the guard still held: updater.run(), then
\* either the early return on Err or the store and "Update started!".
StartRun ==
    /\ wpc = "start_run"
    /\ IF RunRefused(wtask)
       THEN /\ DropTask(wtask)
            /\ response' = [ kind |-> "start", text |-> RespRunError, body |-> NoSnap ]
            /\ UNCHANGED updater
       ELSE /\ RunSpawn(wtask)
            /\ StoreUpdater(wtask)
            /\ response' = [ kind |-> "start", text |-> RespStarted, body |-> NoSnap ]
    /\ guard' = "free"
    /\ wtask' = 0
    /\ wpc' = "respond"
    /\ UNCHANGED << snap, lpc >>

\* The handler's value is handed to the HTTP layer; the worker is idle again.
WorkerReturn ==
    /\ wpc = "respond"
    /\ wpc' = "idle"
    /\ response' = NoResponse
    /\ snap' = NoSnap
    /\ UNCHANGED << guard, updater, taskVars, wtask, lpc >>

\* ------------------------------------------------------ progress_endpoint
\* GET /progress with no task: the "no_task" value.
ProgressNoTask ==
    /\ wpc = "idle"
    /\ guard = "free"
    /\ updater = 0
    /\ wpc' = "respond"
    /\ response' = [ kind |-> "progress", text |-> RespNone, body |-> NoTaskSnap ]
    /\ UNCHANGED << guard, updater, taskVars, wtask, snap, lpc >>

\* GET /progress with a task: the guard is taken and get_progress reads the
\* stage under the stage lock.
ProgressReadStage ==
    /\ wpc = "idle"
    /\ guard = "free"
    /\ updater # 0
    /\ guard' = "worker"
    /\ snap' = [ snap EXCEPT !.stage = stage[updater] ]
    /\ wpc' = "prog_error"
    /\ UNCHANGED << updater, taskVars, wtask, response, lpc >>

\* get_progress reads the error under the error lock.
ProgressReadError ==
    /\ wpc = "prog_error"
    /\ snap' = [ snap EXCEPT !.errorMessage = error_message[updater] ]
    /\ wpc' = "prog_dl"
    /\ UNCHANGED << guard, updater, taskVars, wtask, response, lpc >>

\* get_progress takes the downloader lock for get_progress_json, then the
\* handler returns the value and releases the guard.
ProgressReadDownloader ==
    /\ wpc = "prog_dl"
    /\ dlLock[updater] = "free"
    /\ response' = [ kind |-> "progress", text |-> RespNone,
                     body |-> [ snap EXCEPT !.downloadProgress = dl[updater] ] ]
    /\ snap' = NoSnap
    /\ guard' = "free"
    /\ wpc' = "respond"
    /\ UNCHANGED << updater, taskVars, wtask, lpc >>

\* ------------------------------------------------------------ update_loop
\* The loop reads is_running of the current task under the guard; when the
\* task is not running it sleeps a second and checks again.
LoopCheck ==
    /\ lpc = "check"
    /\ guard = "free"
    /\ lpc' = IF updater # 0 /\ is_running[updater] THEN "line" ELSE "check"
    /\ UNCHANGED << guard, updater, taskVars, workerVars >>

\* It takes the guard again for the progress line.
LoopLineLock ==
    /\ lpc = "line"
    /\ guard = "free"
    /\ guard' = "loop"
    /\ lpc' = "line_dl"
    /\ UNCHANGED << updater, taskVars, workerVars >>

\* With the guard held it takes the downloader lock for
\* get_progress_human_line, then sleeps a second.
LoopLineRead ==
    /\ lpc = "line_dl"
    /\ updater # 0 => dlLock[updater] = "free"
    /\ guard' = "free"
    /\ lpc' = "check"
    /\ UNCHANGED << updater, taskVars, workerVars >>

\* ------------------------------------------------------ update_task_main
\* One step of the thread of task t: the listed fields of t change.
Step(t, p, i) ==
    /\ pc' = [ pc EXCEPT ![t] = p ]
    /\ idx' = [ idx EXCEPT ![t] = i ]

\* `return Err(e)` from update_task_main.
ReturnErr(t, e) ==
    /\ Step(t, "write_error", 0)
    /\ ret' = [ ret EXCEPT ![t] = e ]

SetStage(t, s) == stage' = [ stage EXCEPT ![t] = s ]

Called(t, op, i, res) == log' = [ log EXCEPT ![t] = Append1(t, op, i, res) ]

controlVars == << guard, updater, cfg, wpc, wtask, snap, response, lpc >>

\* *stage.lock().unwrap() = "stopping_services"
SetStageStopping(t) ==
    /\ pc[t] = "spawned"
    /\ SetStage(t, "stopping_services")
    /\ Step(t, "stop", 1)
    /\ UNCHANGED << controlVars, error_message, is_running, dl, dlLock, ret, log >>

\* Mutant: a failed stop is logged and the loop goes on.
StopResultIgnored(t, res) == Step(t, "stop", idx[t] + 1) /\ UNCHANGED ret

\* systemctl::stop of service idx: Ok goes on, Err returns at once.
StopResult(t, res) ==
    IF res = "ok"
    THEN Step(t, "stop", idx[t] + 1) /\ UNCHANGED ret
    ELSE ReturnErr(t, ErrStop)

StopService(t) ==
    /\ pc[t] = "stop"
    /\ idx[t] <= cfg[t].services
    /\ \E res \in { "ok", "err" } :
          /\ Called(t, "stop", idx[t], res)
          /\ StopResult(t, res)
    /\ UNCHANGED << controlVars, stage, error_message, is_running, dl, dlLock >>

\* Mutant: the stage is not set when the removals begin.
SetStageRemovingSkipped(t) ==
    /\ pc[t] = "stop"
    /\ idx[t] > cfg[t].services
    /\ Step(t, "remove", 1)
    /\ UNCHANGED << controlVars, stage, error_message, is_running, dl, dlLock, ret, log >>

\* *stage.lock().unwrap() = "removing_old_files"
SetStageRemoving(t) ==
    /\ pc[t] = "stop"
    /\ idx[t] > cfg[t].services
    /\ SetStage(t, "removing_old_files")
    /\ Step(t, "remove", 1)
    /\ UNCHANGED << controlVars, error_message, is_running, dl, dlLock, ret, log >>

\* path.is_dir(): fs::remove_dir_all
RemoveDir(t) ==
    /\ pc[t] = "remove"
    /\ idx[t] <= cfg[t].paths
    /\ \E res \in { "ok", "err" } :
          /\ Called(t, "remove", idx[t], res)
          /\ IF res = "ok"
             THEN Step(t, "remove", idx[t] + 1) /\ UNCHANGED ret
             ELSE ReturnErr(t, ErrRemoveDir)
    /\ UNCHANGED << controlVars, stage, error_message, is_running, dl, dlLock >>

\* path.is_file(): fs::remove_file
RemoveFile(t) ==
    /\ pc[t] = "remove"
    /\ idx[t] <= cfg[t].paths
    /\ \E res \in { "ok", "err" } :
          /\ Called(t, "remove", idx[t], res)
          /\ IF res = "ok"
             THEN Step(t, "remove", idx[t] + 1) /\ UNCHANGED ret
             ELSE ReturnErr(t, ErrRemoveFile)
    /\ UNCHANGED << controlVars, stage, error_message, is_running, dl, dlLock >>

\* Mutant: a missing path is handed to fs::remove_file, which fails.
MissingPathFails(t) == ReturnErr(t, ErrRemoveFile)

\* The path is neither a directory nor a file: only a log line.
MissingPathStep(t) == Step(t, "remove", idx[t] + 1) /\ UNCHANGED ret

RemoveMissing(t) ==
    /\ pc[t] = "remove"
    /\ idx[t] <= cfg[t].paths
    /\ Called(t, "remove", idx[t], "missing")
    /\ MissingPathStep(t)
    /\ UNCHANGED << controlVars, stage, error_message, is_running, dl, dlLock >>

\* thread::sleep(Duration::from_secs(1)) after the removals
SettleSleep(t) ==
    /\ pc[t] = "remove"
    /\ idx[t] > cfg[t].paths
    /\ Step(t, "set_downloading", 0)
    /\ UNCHANGED << controlVars, stage, error_message, is_running, dl, dlLock, ret, log >>

\* *stage.lock().unwrap() = "downloading"
SetStageDownloading(t) ==
    /\ pc[t] = "set_downloading"
    /\ SetStage(t, "downloading")
    /\ Step(t, "start_download", 0)
    /\ UNCHANGED << controlVars, error_message, is_running, dl, dlLock, ret, log >>

\* downloader.lock().unwrap().start_download(): the lock is taken and the
\* call is made with the lock held.
StartDownloadCall(t) ==
    /\ pc[t] = "start_download"
    /\ dlLock[t] = "free"
    /\ dlLock' = [ dlLock EXCEPT ![t] = "pipeline" ]
    /\ Step(t, "in_start_download", 0)
    /\ UNCHANGED << controlVars, stage, error_message, is_running, dl, ret, log >>

\* Mutant: the guard of the downloader lock outlives the match.
StartDownloadReturnKeepsLock(t) ==
    /\ pc[t] = "in_start_download"
    /\ \E res \in { "ok", "err" } :
          /\ Called(t, "start_download", 0, res)
          /\ IF res = "ok"
             THEN /\ dl' = [ dl EXCEPT ![t] = "running" ]
                  /\ Step(t, "poll", 0)
                  /\ UNCHANGED ret
             ELSE /\ ReturnErr(t, ErrStartDownload)
                  /\ UNCHANGED dl
    /\ UNCHANGED << controlVars, stage, error_message, is_running, dlLock >>

\* start_download returns; the lock is released at the end of the match.
StartDownloadReturn(t) ==
    /\ pc[t] = "in_start_download"
    /\ dlLock' = [ dlLock EXCEPT ![t] = "free" ]
    /\ \E res \in { "ok", "err" } :
          /\ Called(t, "start_download", 0, res)
          /\ IF res = "ok"
             THEN /\ dl' = [ dl EXCEPT ![t] = "running" ]
                  /\ Step(t, "poll", 0)
                  /\ UNCHANGED ret
             ELSE /\ ReturnErr(t, ErrStartDownload)
                  /\ UNCHANGED dl
    /\ UNCHANGED << controlVars, stage, error_message, is_running >>

\* The download engine finishes on its own threads, with or without an error.
DownloaderFinishes(t) ==
    /\ dl[t] = "running"
    /\ \E d \in { "finished", "finished_with_error" } : dl' = [ dl EXCEPT ![t] = d ]
    /\ UNCHANGED << controlVars, stage, error_message, is_running, dlLock, pc, idx, ret, log >>

\* Mutant: the poll never sees the download finished.
IsFinishedNever(t) == FALSE

IsFinished(t) == dl[t] \in { "finished", "finished_with_error" }

\* Mutant: the loop is left after one look, finished or not.
PollFinishedOnce(t) ==
    /\ pc[t] = "poll"
    /\ dlLock[t] = "free"
    /\ Step(t, "check_download", 0)
    /\ UNCHANGED << controlVars, stage, error_message, is_running, dl, dlLock, ret, log >>

\* while !downloader.lock().unwrap().is_finished()
PollFinished(t) ==
    /\ pc[t] = "poll"
    /\ dlLock[t] = "free"
    /\ Step(t, IF IsFinished(t) THEN "check_download" ELSE "poll_sleep", 0)
    /\ UNCHANGED << controlVars, stage, error_message, is_running, dl, dlLock, ret, log >>

\* std::thread::sleep(1 s) in the poll loop
PollSleep(t) ==
    /\ pc[t] = "poll_sleep"
    /\ Step(t, "poll", 0)
    /\ UNCHANGED << controlVars, stage, error_message, is_running, dl, dlLock, ret, log >>

\* Mutant: the downloader's error field is not looked at.
DownloadErrorIgnored(t) == FALSE

\* downloader.lock().unwrap().get_progress().error_message
DownloadError(t) == dl[t] = "finished_with_error"

CheckDownload(t) ==
    /\ pc[t] = "check_download"
    /\ dlLock[t] = "free"
    /\ IF DownloadError(t)
       THEN /\ Called(t, "get_progress", 0, "err")
            /\ ReturnErr(t, ErrDownload)
       ELSE /\ Called(t, "get_progress", 0, "ok")
            /\ Step(t, "set_ownership", 0)
            /\ UNCHANGED ret
    /\ UNCHANGED << controlVars, stage, error_message, is_running, dl, dlLock >>

\* *stage.lock().unwrap() = "changing_ownership"
SetStageOwnership(t) ==
    /\ pc[t] = "set_ownership"
    /\ SetStage(t, "changing_ownership")
    /\ Step(t, "chown", 1)
    /\ UNCHANGED << controlVars, error_message, is_running, dl, dlLock, ret, log >>

\* Command::new("/bin/bash").arg("-c").arg("chown -R ...").output(): Err only
\* when the shell could not be launched; the exit status is not looked at.
ChownResult(t, res) ==
    IF res = "launch_failed"
    THEN ReturnErr(t, ErrChown)
    ELSE Step(t, "chown", idx[t] + 1) /\ UNCHANGED ret

ChangeOwner(t) ==
    /\ pc[t] = "chown"
    /\ cfg[t].owner
    /\ idx[t] <= cfg[t].targets
    /\ \E res \in { "exit_ok", "exit_failure", "launch_failed" } :
          /\ Called(t, "chown", idx[t], res)
          /\ ChownResult(t, res)
    /\ UNCHANGED << controlVars, stage, error_message, is_running, dl, dlLock >>

\* *stage.lock().unwrap() = "starting_service"
SetStageStarting(t) ==
    /\ pc[t] = "chown"
    /\ ~cfg[t].owner \/ idx[t] > cfg[t].targets
    /\ SetStage(t, "starting_service")
    /\ Step(t, "restart", 1)
    /\ UNCHANGED << controlVars, error_message, is_running, dl, dlLock, ret, log >>

\* Mutant: a failed restart is logged and the loop goes on.
RestartResultIgnored(t, res) == Step(t, "restart", idx[t] + 1) /\ UNCHANGED ret

\* systemctl::restart of service idx
RestartResult(t, res) ==
    IF res = "ok"
    THEN Step(t, "restart", idx[t] + 1) /\ UNCHANGED ret
    ELSE ReturnErr(t, ErrRestart)

RestartService(t) ==
    /\ pc[t] = "restart"
    /\ idx[t] <= cfg[t].services
    /\ \E res \in { "ok", "err" } :
          /\ Called(t, "restart", idx[t], res)
          /\ RestartResult(t, res)
    /\ UNCHANGED << controlVars, stage, error_message, is_running, dl, dlLock >>

\* Mutant: update_task_main clears the running flag itself when it finishes.
SetStageFinishedClears(t) ==
    /\ pc[t] = "restart"
    /\ idx[t] > cfg[t].services
    /\ SetStage(t, "finished")
    /\ Step(t, "clear_running", 0)
    /\ ret' = [ ret EXCEPT ![t] = "Ok" ]
    /\ is_running' = [ is_running EXCEPT ![t] = FALSE ]
    /\ UNCHANGED << controlVars, error_message, dl, dlLock, log >>

\* Mutant: finished is written without waiting for the restarts.
SetStageFinishedEarly(t) ==
    /\ pc[t] = "restart"
    /\ SetStage(t, "finished")
    /\ Step(t, "clear_running", 0)
    /\ ret' = [ ret EXCEPT ![t] = "Ok" ]
    /\ UNCHANGED << controlVars, error_message, is_running, dl, dlLock, log >>

\* *stage.lock().unwrap() = "finished"; Ok(())
SetStageFinished(t) ==
    /\ pc[t] = "restart"
    /\ idx[t] > cfg[t].services
    /\ SetStage(t, "finished")
    /\ Step(t, "clear_running", 0)
    /\ ret' = [ ret EXCEPT ![t] = "Ok" ]
    /\ UNCHANGED << controlVars, error_message, is_running, dl, dlLock, log >>

\* ------------------------------------------ the closure of UpdateTask::run
\* Err(e) => *error_message.lock().unwrap() = Some(e.to_string())
WriteError(t) ==
    /\ pc[t] = "write_error"
    /\ error_message' = [ error_message EXCEPT ![t] = ret[t] ]
    /\ Step(t, "clear_running", 0)
    /\ UNCHANGED << controlVars, stage, is_running, dl, dlLock, ret, log >>

\* Mutant: the running flag is cleared only in the Ok arm of the closure.
ClearRunningOnlyOnOk(t) ==
    /\ pc[t] = "clear_running"
    /\ is_running' = [ is_running EXCEPT ![t] = (ret[t] # "Ok") ]
    /\ Step(t, "ended", 0)
    /\ UNCHANGED << controlVars, stage, error_message, dl, dlLock, ret, log >>

\* *is_running.lock().unwrap() = false; the thread ends.
ClearRunning(t) ==
    /\ pc[t] = "clear_running"
    /\ is_running' = [ is_running EXCEPT ![t] = FALSE ]
    /\ Step(t, "ended", 0)
    /\ UNCHANGED << controlVars, stage, error_message, dl, dlLock, ret, log >>

\* ------------------------------------------------------------------ Next
Pipeline(t) ==
    \/ SetStageStopping(t)
    \/ StopService(t)
    \/ SetStageRemoving(t)
    \/ RemoveDir(t)
    \/ RemoveFile(t)
    \/ RemoveMissing(t)
    \/ SettleSleep(t)
    \/ SetStageDownloading(t)
    \/ StartDownloadCall(t)
    \/ StartDownloadReturn(t)
    \/ PollFinished(t)
    \/ PollSleep(t)
    \/ CheckDownload(t)
    \/ SetStageOwnership(t)
    \/ ChangeOwner(t)
    \/ SetStageStarting(t)
    \/ RestartService(t)
    \/ SetStageFinished(t)
    \/ WriteError(t)
    \/ ClearRunning(t)

Worker ==
    \/ StartRejected
    \/ StartConstruct
    \/ StartRun
    \/ ProgressNoTask
    \/ ProgressReadStage
    \/ ProgressReadError
    \/ ProgressReadDownloader
    \/ WorkerReturn

UpdateLoop ==
    \/ LoopCheck
    \/ LoopLineLock
    \/ LoopLineRead

Next ==
    \/ Worker
    \/ UpdateLoop
    \/ \E t \in Tasks : Pipeline(t)
    \/ \E t \in Tasks : DownloaderFinishes(t)

Spec == Init /\ [][Next]_vars

\* Every spawned thread is scheduled and every external call returns (a
\* pipeline step that is enabled is eventually taken), and a started
\* download eventually finishes.
Fairness ==
    \A t \in Tasks : WF_vars(Pipeline(t)) /\ WF_vars(DownloaderFinishes(t))

FairSpec == Spec /\ Fairness

\* ================================================================ claims
\* A step of the worker that serves GET /start: it leaves "idle" for the
\* construction of a task or for a start response.
StartRequestStep ==
    /\ wpc = "idle"
    /\ \/ wpc' = "start_run"
       \/ wpc' = "respond" /\ response'.kind = "start"

\* The slot holds the same task before and after the step.
SameTask(t) ==
    /\ pc[t] # "absent"
    /\ pc'[t] # "absent"
    /\ ~(pc[t] # "new" /\ pc'[t] = "new")

\* C1: single-flight: in every reachable state at most one background
\* thread is inside update_task_main or its final error/running writes.
C1_SingleFlight == Cardinality(ActiveThreads) <= 1

\* A start request was answered "Already running" while the one pipeline runs.
C1_Witness ==
    /\ wpc = "respond"
    /\ response.text = RespAlreadyRunning
    /\ Cardinality(ActiveThreads) = 1

\* C2: a start request that finds the current task running is answered
\* "Already running" and changes nothing: no task is built, no thread is
\* spawned, the current-task pointer and every field of every task stay.
C2_RejectedStartHasNoEffect ==
    [][ (StartRequestStep /\ updater # 0 /\ is_running[updater])
        => /\ wpc' = "respond"
           /\ response'.text = RespAlreadyRunning
           /\ wtask' = 0
           /\ UNCHANGED << updater, taskVars, guard >> ]_vars

\* The rejection has been answered and the current task is still running.
C2_Witness ==
    /\ wpc = "respond"
    /\ response.kind = "start"
    /\ response.text = RespAlreadyRunning
    /\ updater # 0
    /\ is_running[updater]
    /\ ThreadActive(updater)

\* C3: a start request that is not rejected builds a new task (not the
\* current one), and the handler then spawns its thread, stores it as the
\* current task in place of the previous one and answers "Update started!".
C3_AcceptedStartStoresTask ==
    /\ [][ (StartRequestStep /\ ~(updater # 0 /\ is_running[updater]))
           => /\ wpc' = "start_run"
              /\ wtask' \in Tasks
              /\ wtask' # updater
              /\ pc[wtask'] \in { "absent", "ended" }
              /\ pc'[wtask'] = "new"
              /\ guard' = "worker" ]_vars
    /\ [][ (wpc = "start_run" /\ wpc' # "start_run")
           => /\ wpc' = "respond"
              /\ response'.kind = "start"
              /\ response'.text = RespStarted
              /\ updater' = wtask
              /\ updater' # updater
              /\ pc'[wtask] = "spawned"
              /\ guard' = "free" ]_vars
    /\ [](wpc = "idle" => \E t \in Tasks : SlotFree(t))

\* A second task was accepted after the first one had ended.
C3_Witness ==
    /\ wpc = "respond"
    /\ response.text = RespStarted
    /\ updater = 2
    /\ pc[2] = "spawned"
    /\ pc[1] = "absent"

\* C4: for every task, every change of the stage goes from a stage to its
\* immediate successor in the fixed order init .. finished.
C4_StageMovesToSuccessor ==
    [][ \A t \in Tasks :
          (SameTask(t) /\ stage'[t] # stage[t])
          => /\ stage[t] # "finished"
             /\ stage'[t] = StageOrder[StageRank(stage[t]) + 1] ]_vars

\* A task has gone through every stage.
C4_Witness ==
    \E t \in Tasks : stage[t] = "finished" /\ Len(log[t]) > 0

\* C5: a task's running flag is false before run(), true from the moment
\* run() has spawned the thread for as long as the thread has a step, the
\* error write or the flag write to perform, and false once it has ended.
C5_RunningCoversThread ==
    \A t \in Tasks :
       /\ pc[t] \in { "absent", "new", "ended" } => ~is_running[t]
       /\ ThreadActive(t) => is_running[t]

\* The current task failed, wrote its error and ended with the flag cleared.
C5_Witness ==
    /\ updater # 0
    /\ pc[updater] = "ended"
    /\ error_message[updater] # NoError
    /\ ~is_running[updater]

\* The thread has left update_task_main with an error.
Aborted(t) == pc[t] \in { "write_error", "clear_running", "ended" }

\* The closure has performed its error write.
ErrorWritten(t) == pc[t] \in { "clear_running", "ended" }

Entries(t) == 1..Len(log[t])

\* How many of the first k calls of task t were calls of `op`.
CallsUpTo(t, op, k) == Cardinality({ j \in 1..k : log[t][j].op = op })

\* C6: if stopping a service fails, that call is the last call the run
\* ever makes (no later stop, removal, download, chown or restart), the
\* services before it were stopped, the stage stays stopping_services, and
\* the task ends with the stop error recorded and running = false.
C6_StopFailureAborts ==
    \A t \in Tasks : \A k \in Entries(t) :
       (log[t][k].op = "stop" /\ log[t][k].res = "err")
       => /\ k = Len(log[t])
          /\ \A j \in 1..(k - 1) : log[t][j] = [ op |-> "stop", i |-> j, res |-> "ok" ]
          /\ stage[t] = "stopping_services"
          /\ Aborted(t)
          /\ ErrorWritten(t) => error_message[t] = ErrStop
          /\ pc[t] = "ended" => ~is_running[t]

\* The first of several services could not be stopped and the task has ended.
C6_Witness ==
    \E t \in Tasks :
       /\ pc[t] = "ended"
       /\ cfg[t].services > 1
       /\ log[t] = << [ op |-> "stop", i |-> 1, res |-> "err" ] >>
       /\ stage[t] = "stopping_services"
       /\ error_message[t] = ErrStop

\* C7: if the downloader reports finished with its error set, the stage
\* stays at downloading, no ownership change and no restart is ever called,
\* and the run ends with the download error recorded.
C7_DownloadErrorAborts ==
    \A t \in Tasks :
       dl[t] = "finished_with_error"
       => /\ stage[t] = "downloading"
          /\ \A k \in Entries(t) : log[t][k].op \notin { "chown", "restart" }
          /\ pc[t] \in { "poll", "poll_sleep", "check_download" } \/ Aborted(t)
          /\ Aborted(t) => ret[t] = ErrDownload
          /\ ErrorWritten(t) => error_message[t] = ErrDownload

\* The download failed, the error was read and recorded, the task has ended.
C7_Witness ==
    \E t \in Tasks :
       /\ pc[t] = "ended"
       /\ dl[t] = "finished_with_error"
       /\ error_message[t] = ErrDownload
       /\ stage[t] = "downloading"

\* C8: if the ownership change of a target path fails, because the command
\* could not be launched or because it ran and reported failure, that call
\* is the last call of the run (no further chown, no restart), the stage
\* stays changing_ownership and a non-empty error is recorded.
C8_ChownFailureAborts ==
    \A t \in Tasks : \A k \in Entries(t) :
       (log[t][k].op = "chown" /\ log[t][k].res \in { "launch_failed", "exit_failure" })
       => /\ k = Len(log[t])
          /\ stage[t] = "changing_ownership"
          /\ Aborted(t)
          /\ ErrorWritten(t) => error_message[t] # NoError

\* C9: the k-th restart call is for service k, as the k-th stop call was;
\* restarts happen only in stage starting_service; if a restart fails it is
\* the last call of the run, the restarts before it succeeded and are not
\* undone, the stage stays starting_service and the restart error is recorded.
C9_RestartOrderAndFailure ==
    \A t \in Tasks : \A k \in Entries(t) :
       /\ log[t][k].op = "stop" => log[t][k].i = CallsUpTo(t, "stop", k)
       /\ log[t][k].op = "restart"
          => /\ log[t][k].i = CallsUpTo(t, "restart", k)
             /\ log[t][k].i <= CallsUpTo(t, "stop", k)
             /\ stage[t] \in { "starting_service", "finished" }
       /\ (log[t][k].op = "restart" /\ log[t][k].res = "err")
          => /\ k = Len(log[t])
             /\ \A j \in 1..(k - 1) : log[t][j].op = "restart" => log[t][j].res = "ok"
             /\ stage[t] = "starting_service"
             /\ Aborted(t)
             /\ ErrorWritten(t) => error_message[t] = ErrRestart

\* The first service was restarted, the second restart failed, the task ended.
C9_Witness ==
    \E t \in Tasks :
       /\ pc[t] = "ended"
       /\ Len(log[t]) > 1
       /\ log[t][Len(log[t]) - 1] = [ op |-> "restart", i |-> 1, res |-> "ok" ]
       /\ log[t][Len(log[t])] = [ op |-> "restart", i |-> 2, res |-> "err" ]
       /\ stage[t] = "starting_service"
       /\ error_message[t] = ErrRestart

RemovalFailed(t) == \E k \in Entries(t) : log[t][k].op = "remove" /\ log[t][k].res = "err"

\* C10: a removal path that is neither a directory nor a file is a success:
\* the step records no error and returns nothing, the next path of the list
\* is processed next, and unless a real removal fails the run has stage
\* downloading (or later) once it is past the settle delay.
C10_MissingPathIsSuccess ==
    \A t \in Tasks : \A k \in Entries(t) :
       (log[t][k].op = "remove" /\ log[t][k].res = "missing")
       => /\ k = Len(log[t])
             => /\ ret[t] = "none"
                /\ error_message[t] = NoError
                /\ pc[t] \in { "remove", "set_downloading", "start_download",
                               "in_start_download" }
                /\ pc[t] = "remove" => idx[t] = log[t][k].i + 1
          /\ (k < Len(log[t]) /\ log[t][k].i < cfg[t].paths)
             => log[t][k + 1].op = "remove" /\ log[t][k + 1].i = log[t][k].i + 1
          /\ error_message[t] \in { ErrRemoveDir, ErrRemoveFile } => RemovalFailed(t)
          /\ (~RemovalFailed(t) /\ pc[t] \notin { "remove", "set_downloading" })
             => StageRank(stage[t]) >= StageRank("downloading")

\* The first path did not exist, the second was processed, the run downloads.
C10_Witness ==
    \E t \in Tasks :
       /\ Len(log[t]) > 1
       /\ log[t][1] = [ op |-> "remove", i |-> 1, res |-> "missing" ]
       /\ log[t][2].op = "remove"
       /\ log[t][2].i = 2
       /\ stage[t] = "downloading"
       /\ error_message[t] = NoError

\* The last call task t made to a collaborator reported a failure.
LastCallFailed(t) ==
    /\ Len(log[t]) > 0
    /\ log[t][Len(log[t])].res \in { "err", "launch_failed" }

\* C11: a task's error goes from None to a message at most once, and only
\* after a call of the run has failed; once it is set the stage and the
\* error never change again, the thread has nothing left but to clear the
\* running flag, and a cleared flag stays cleared.
C11_ErrorWrittenOnce ==
    /\ [][ \A t \in Tasks :
             /\ (SameTask(t) /\ error_message'[t] # error_message[t])
                => /\ error_message[t] = NoError
                   /\ error_message'[t] = ret[t]
                   /\ ret[t] \notin { "none", "Ok" }
                   /\ LastCallFailed(t)
             /\ (SameTask(t) /\ error_message[t] # NoError)
                => /\ stage'[t] = stage[t]
                   /\ error_message'[t] = error_message[t]
                   /\ ~is_running[t] => ~is_running'[t] ]_vars
    /\ [](\A t \in Tasks :
             error_message[t] # NoError
             => /\ pc[t] \in { "clear_running", "ended" }
                /\ pc[t] = "ended" => ~is_running[t]
                /\ stage[t] # "finished")

\* A removal failed: the error is recorded, the stage stayed, the flag is clear.
C11_Witness ==
    \E t \in Tasks :
       /\ error_message[t] = ErrRemoveDir
       /\ pc[t] = "ended"
       /\ stage[t] = "removing_old_files"
       /\ ~is_running[t]

\* The place of a call in the fixed order of the pipeline.
OpRank(op) ==
    CASE op = "stop" -> 1
      [] op = "remove" -> 2
      [] op = "start_download" -> 3
      [] op = "get_progress" -> 4
      [] op = "chown" -> 5
      [] op = "restart" -> 6

\* C12: within one run the calls are made in the order stops, removals,
\* download start, ownership changes, restarts; no call is made twice for
\* the same service or path; and a call that failed (a stop, removal,
\* download start, download, chown or restart that reported failure) is
\* the last call of the run.
C12_NoRetryStrictOrder ==
    \A t \in Tasks : \A k \in Entries(t) :
       /\ \A j \in 1..(k - 1) :
             /\ OpRank(log[t][j].op) <= OpRank(log[t][k].op)
             /\ ~(log[t][j].op = log[t][k].op /\ log[t][j].i = log[t][k].i)
       /\ log[t][k].res \in { "err", "launch_failed", "exit_failure" } => k = Len(log[t])

\* A step in which the worker hands out the response of GET /progress.
ProgressResponseStep == wpc # "respond" /\ wpc' = "respond" /\ response'.kind = "progress"

\* C13: GET /progress answers "no_task" exactly when no task is stored, and
\* a task is stored exactly from the first accepted start on; otherwise the
\* answer is read from the task stored by the latest accepted start; a task
\* whose thread has ended keeps its stage and error while it is stored, so
\* it is answered with the same values until a later start is accepted.
C13_ProgressOfCurrentTask ==
    /\ [][ ProgressResponseStep
           => /\ (response'.body = NoTaskSnap) <=> (updater = 0)
              /\ updater # 0
                 => /\ wpc = "prog_dl"
                    /\ response'.body.stage = snap.stage
                    /\ response'.body.errorMessage = snap.errorMessage
                    /\ response'.body.downloadProgress = dl[updater] ]_vars
    /\ [][ (wpc = "idle" /\ wpc' = "prog_error")
           => updater # 0 /\ snap'.stage = stage[updater] ]_vars
    /\ [][ (wpc = "prog_error" /\ wpc' # wpc)
           => /\ wpc' = "prog_dl"
              /\ snap'.stage = snap.stage
              /\ snap'.errorMessage = error_message[updater] ]_vars
    /\ [][ updater' # updater
           => /\ wpc = "start_run"
              /\ response'.text = RespStarted
              /\ updater' = wtask
              /\ updater' # 0 ]_vars
    /\ [][ (wpc = "start_run" /\ response'.text = RespStarted) => updater' = wtask ]_vars
    /\ [][ \A t \in Tasks :
             (t = updater /\ updater' = updater /\ pc[t] = "ended")
             => /\ stage'[t] = stage[t]
                /\ error_message'[t] = error_message[t]
                /\ pc'[t] = "ended" ]_vars
    /\ [](wpc \in { "prog_error", "prog_dl" } => updater # 0 /\ guard = "worker")

\* A failed task that has ended is answered with its stage and its error.
C13_Witness ==
    /\ wpc = "respond"
    /\ response.kind = "progress"
    /\ updater # 0
    /\ pc[updater] = "ended"
    /\ response.body.stage = "changing_ownership"
    /\ response.body.errorMessage = ErrChown
    /\ stage[updater] = "changing_ownership"

\* The thread of task t is inside an external call with the downloader
\* lock held (the only lock the pipeline keeps across a call).
HoldsLockInCall(t) == pc[t] = "in_start_download" /\ dlLock[t] = "pipeline"

\* The worker, with the guard held, waits for the downloader lock.
WorkerWaitsForPipeline ==
    wpc = "prog_dl" /\ dlLock[updater] = "pipeline"

\* update_loop, with the guard held, waits for the downloader lock.
LoopWaitsForPipeline ==
    lpc = "line_dl" /\ updater # 0 /\ dlLock[updater] = "pipeline"

\* C14: no control-plane request (progress_endpoint, start_update, the debug
\* update_loop) is ever blocked on a lock that a pipeline thread holds while
\* it is inside an external call.
C14_ControlPlaneNeverWaitsOnPipeline ==
    \A t \in Tasks :
       HoldsLockInCall(t) => ~(t = updater /\ (WorkerWaitsForPipeline \/ LoopWaitsForPipeline))

\* C15: the (stage, errorMessage) pair of a progress response is a pair the
\* task held at one moment.  A task holds (s, None) for the stages it goes
\* through and, once failed, only (stage of the failure, error), and its
\* stage is frozen from the failure on; so the claim says that a response
\* with an error carries the stage the task has (the stage of the failure).
C15_SnapshotIsPointInTime ==
    (wpc = "respond" /\ response.kind = "progress" /\ updater # 0
       /\ response.body.errorMessage # NoError)
    => response.body.stage = stage[updater]

\* The thread of task t has ended in one of the two terminal outcomes.
Terminated(t) ==
    /\ pc[t] = "ended"
    /\ ~is_running[t]
    /\ \/ stage[t] = "finished" /\ error_message[t] = NoError
       \/ stage[t] # "finished" /\ error_message[t] # NoError

\* C16: under fair scheduling of the pipeline threads, with every external
\* call returning and every started download finishing, each accepted start
\* leads to running = false with either stage finished and no error, or an
\* error and a stage other than finished: a spawned thread does not stay
\* active forever, and it leaves the active states only by ending, in one of
\* the two outcomes.
C16_AcceptedStartTerminates ==
    /\ \A t \in Tasks : []<>(~ThreadActive(t))
    /\ [](\A t \in Tasks : pc[t] = "ended" => Terminated(t))

\* A run over all configured services and paths has ended finished.
C16_Witness ==
    \E t \in Tasks :
       /\ Terminated(t)
       /\ stage[t] = "finished"
       /\ cfg[t].services = MaxServices
       /\ cfg[t].paths = MaxPaths
       /\ Len(log[t]) > MaxServices + MaxPaths

\* The run of task t is in its poll loop.
Polling(t) == pc[t] \in { "poll", "poll_sleep" }

\* C17: after a successful download start the run stays in stage
\* downloading, polling, until the downloader has finished; the downloader's
\* error field is read only then and at most once; no stage from
\* changing_ownership on is held while the download is unfinished; a failed
\* download start is the run's last call, made without any poll, and the
\* run aborts in stage downloading.
C17_PollUntilFinishedThenCheckOnce ==
    \A t \in Tasks :
       /\ (Polling(t) \/ pc[t] = "check_download")
             => /\ stage[t] = "downloading"
                /\ Len(log[t]) > 0
                /\ log[t][Len(log[t])] = [ op |-> "start_download", i |-> 0, res |-> "ok" ]
       /\ dl[t] = "running" => Polling(t)
       /\ pc[t] = "check_download" => IsFinished(t)
       /\ CallsUpTo(t, "get_progress", Len(log[t])) <= 1
       /\ \A k \in Entries(t) :
             log[t][k].op = "get_progress"
                => /\ IsFinished(t)
                   /\ k > 1
                   /\ log[t][k - 1] = [ op |-> "start_download", i |-> 0, res |-> "ok" ]
       /\ StageRank(stage[t]) >= StageRank("changing_ownership")
             => /\ dl[t] = "finished"
                /\ CallsUpTo(t, "get_progress", Len(log[t])) = 1
       /\ \A k \in Entries(t) :
             (log[t][k].op = "start_download" /\ log[t][k].res = "err")
                => /\ k = Len(log[t])
                   /\ Aborted(t)
                   /\ stage[t] = "downloading"
                   /\ dl[t] = "idle"

\* The download finished without error, its error field was read once, and
\* the run went on to changing_ownership.
C17_Witness ==
    \E t \in Tasks :
       /\ stage[t] = "changing_ownership"
       /\ pc[t] = "chown"
       /\ dl[t] = "finished"
       /\ CallsUpTo(t, "get_progress", Len(log[t])) = 1

\* The worker has answered GET /progress with a terminal snapshot of the
\* current task: stage finished, or an error message.
TerminalSnapshotAnswered ==
    /\ wpc = "respond"
    /\ response.kind = "progress"
    /\ updater # 0
    /\ \/ response.body.stage = "finished"
       \/ response.body.errorMessage # NoError

\* C18: once GET /progress has answered with a terminal snapshot of the
\* current task, a start request is no longer answered "Already running" on
\* account of that task: start_update's check (AlreadyRunning) is already
\* false in the state of the answer, the state in which the caller's next
\* request, a start, may be served.
C18_StartAcceptedAfterTerminalSnapshot ==
    TerminalSnapshotAnswered => ~AlreadyRunning

\* The threads of the process: the HTTP worker, update_loop, and the thread
\* of each task.
WorkerThread == << "worker", 0 >>
LoopThread == << "loop", 0 >>
PipelineThread(t) == << "pipeline", t >>
NoThread == << "none", 0 >>
Threads == { WorkerThread, LoopThread } \cup { PipelineThread(t) : t \in Tasks }

\* The thread that holds the lock thread a is waiting for, if any.  A worker
\* without a request in hand is counted as waiting for the guard, since a
\* request may arrive at any time.
WaitsFor(a) ==
    IF a = WorkerThread
    THEN IF wpc = "idle" /\ guard = "loop" THEN LoopThread
         ELSE IF WorkerWaitsForPipeline THEN PipelineThread(updater)
         ELSE NoThread
    ELSE IF a = LoopThread
    THEN IF lpc \in { "check", "line" } /\ guard = "worker" THEN WorkerThread
         ELSE IF LoopWaitsForPipeline THEN PipelineThread(updater)
         ELSE NoThread
    ELSE IF a \in Threads
            /\ pc[a[2]] \in { "start_download", "poll", "check_download" }
            /\ dlLock[a[2]] = "pipeline"
    THEN a
    ELSE NoThread

\* The thread reached from a after n waits-for edges.
RECURSIVE WaitChain(_, _)
WaitChain(a, n) == IF n = 0 THEN a ELSE WaitChain(WaitsFor(a), n - 1)

InWaitCycle(a) == \E n \in 1..Cardinality(Threads) : WaitChain(a, n) = a

\* A step of the thread of task t.
PipelineStep(t) == ThreadActive(t) /\ pc'[t] # pc[t]

\* The guard is held exactly while a handler or update_loop is between its
\* lock of UPDATER_STATE and its release; the downloader lock is held across
\* steps only by the pipeline, inside start_download; and the thread at the
\* end of every wait can take a step.
LockDiscipline ==
    /\ (guard = "worker") <=> (wpc \in { "start_run", "prog_error", "prog_dl" })
    /\ (guard = "loop") <=> (lpc = "line_dl")
    /\ \A t \in Tasks : dlLock[t] = "pipeline" => pc[t] = "in_start_download"
    /\ \A t \in Tasks : ThreadActive(t) => ENABLED Pipeline(t)
    /\ guard = "worker" => (ENABLED Worker \/ WorkerWaitsForPipeline)
    /\ guard = "loop" => (ENABLED UpdateLoop \/ LoopWaitsForPipeline)

\* C19: no reachable state has a cycle of threads each waiting for a lock
\* held by another; the control plane takes the guard first and the
\* downloader lock only with the guard held; the pipeline never acquires or
\* releases the guard and holds the downloader lock only inside
\* start_download.
C19_NoLockCycle ==
    /\ [](\A a \in Threads : ~InWaitCycle(a))
    /\ []LockDiscipline
    /\ [][ (\E t \in Tasks : PipelineStep(t)) => guard' = guard ]_vars

\* A chain of waits without a cycle: the worker behind update_loop, which
\* holds the guard and waits for the downloader lock held by the pipeline.
C19_Witness ==
    /\ WaitsFor(WorkerThread) = LoopThread
    /\ WaitsFor(LoopThread) = PipelineThread(updater)
    /\ WaitsFor(PipelineThread(updater)) = NoThread

\* Service i of task t was stopped and, later in the same run, restarted,
\* both successfully.
StoppedThenRestarted(t, i) ==
    \E j, k \in Entries(t) :
       /\ j < k
       /\ log[t][j] = [ op |-> "stop", i |-> i, res |-> "ok" ]
       /\ log[t][k] = [ op |-> "restart", i |-> i, res |-> "ok" ]

\* C20: a task whose stage is finished has no error, each of its configured
\* services was stopped and later restarted successfully by that run, and
\* its download finished without error; a task with an error never has
\* stage finished.
C20_FinishedMeansAllDone ==
    \A t \in Tasks :
       /\ stage[t] = "finished"
             => /\ error_message[t] = NoError
                /\ \A i \in 1..cfg[t].services : StoppedThenRestarted(t, i)
                /\ dl[t] = "finished"
                /\ \E k \in Entries(t) :
                      log[t][k] = [ op |-> "get_progress", i |-> 0, res |-> "ok" ]
       /\ error_message[t] # NoError => stage[t] # "finished"

\* A run over all configured services has just written finished; its thread
\* has not yet cleared the running flag.
C20_Witness ==
    \E t \in Tasks :
       /\ stage[t] = "finished"
       /\ cfg[t].services = MaxServices
       /\ pc[t] = "clear_running"
       /\ is_running[t]

====
